---------------------------- MODULE Spec2Model ----------------------------
(* Value encoding and liveness layer of kiwi-rs (src/storage): the record  *)
(* layouts (scalar string, bare data, container metadata), their parse-side *)
(* constructors and in-place mutators, and the compaction filter.           *)
(*                                                                          *)
(* Buffers are sequences of bytes (1-indexed: Rust's value[a..b] is         *)
(* SubSeq(value, a + 1, b)).  A u64 is a tuple of four 16-bit limbs, most   *)
(* significant first, so that the full 64-bit width is kept; an i32 is an   *)
(* integer of -2^31 .. 2^31-1.                                              *)
EXTENDS Integers, Sequences, FiniteSets, TLC

(***************************************************************************)
(* Bounds of the model.                                                    *)
(***************************************************************************)
\* wall-clock samples and stored timestamps range over 0..MaxClock (and the
\* two largest u64 values)
MaxClock == 3
\* payloads of encoded records have at most MaxPayload bytes
MaxPayload == 2
\* raw (arbitrary, possibly corrupted) buffers have at most MaxRawLen bytes
MaxRawLen == 46
\* mutator calls made on one parsed metadata record
MaxCalls == 2
\* calls made on one record while its count is followed
MaxLifeCalls == 3
\* calls made on one list metadata record
MaxPushes == 3

(***************************************************************************)
(* Fixed-width integers.                                                   *)
(***************************************************************************)
Limb == 65536
I32_MAX == 2147483647
I32_MIN == (-I32_MAX) - 1

U64Zero == <<0, 0, 0, 0>>
U64Max == <<Limb - 1, Limb - 1, Limb - 1, Limb - 1>>
\* the u64 of a small natural number n < 2^31
U64Of(n) == <<0, 0, n \div Limb, n % Limb>>
U64Lt(a, b) == \E i \in 1..4 : a[i] < b[i] /\ \A j \in 1..(i - 1) : a[j] = b[j]
U64Le(a, b) == a = b \/ U64Lt(a, b)

\* a + 1 modulo 2^64 (the carry runs from the least significant limb up)
U64WrappingInc(a) ==
    IF a[4] < Limb - 1 THEN <<a[1], a[2], a[3], a[4] + 1>>
    ELSE IF a[3] < Limb - 1 THEN <<a[1], a[2], a[3] + 1, 0>>
    ELSE IF a[2] < Limb - 1 THEN <<a[1], a[2] + 1, 0, 0>>
    ELSE IF a[1] < Limb - 1 THEN <<a[1] + 1, 0, 0, 0>>
    ELSE U64Zero

\* a - 1 modulo 2^64
U64WrappingDec(a) ==
    IF a[4] > 0 THEN <<a[1], a[2], a[3], a[4] - 1>>
    ELSE IF a[3] > 0 THEN <<a[1], a[2], a[3] - 1, Limb - 1>>
    ELSE IF a[2] > 0 THEN <<a[1], a[2] - 1, Limb - 1, Limb - 1>>
    ELSE IF a[1] > 0 THEN <<a[1] - 1, Limb - 1, Limb - 1, Limb - 1>>
    ELSE U64Max

\* u64::to_le_bytes / put_u64_le: least significant byte first
u64_to_le_bytes(x) ==
    << x[4] % 256, x[4] \div 256, x[3] % 256, x[3] \div 256,
       x[2] % 256, x[2] \div 256, x[1] % 256, x[1] \div 256 >>

\* u64::from_le_bytes / get_u64_le on the first eight bytes of b
u64_from_le_bytes(b) ==
    << b[7] + 256 * b[8], b[5] + 256 * b[6], b[3] + 256 * b[4], b[1] + 256 * b[2] >>

\* i32::to_le_bytes: two's complement, least significant byte first
i32_to_le_bytes(c) ==
    LET low == IF c >= 0 THEN c ELSE (c + I32_MAX) + 1   \* the low 31 bits
        top == IF c >= 0 THEN 0 ELSE 128                 \* the sign bit
    IN  << low % 256, (low \div 256) % 256, (low \div 65536) % 256,
           (low \div 16777216) + top >>

\* u32::from_le_bytes(b) as i32: the cast reinterprets bit 31 as the sign
u32_from_le_bytes_as_i32(b) ==
    LET low == b[1] + 256 * b[2] + 65536 * b[3] + 16777216 * (b[4] % 128)
    IN  IF b[4] < 128 THEN low ELSE (low - I32_MAX) - 1

\* i32::saturating_add
i32_saturating_add(c, d) ==
    IF d > 0 /\ c > I32_MAX - d THEN I32_MAX
    ELSE IF d < 0 /\ c < I32_MIN - d THEN I32_MIN
    ELSE c + d

(***************************************************************************)
(* Build profile.  Rust's `dev` profile (cargo build, cargo test) compiles *)
(* debug_assert! in and panics on integer overflow; `release` compiles the *)
(* assertions out and wraps.                                               *)
(***************************************************************************)
Profiles == {"dev", "release"}
debug_assertions(profile) == profile = "dev"
overflow_checks(profile) == profile = "dev"

(***************************************************************************)
(* storage_define: widths of the layouts' fields.                          *)
(***************************************************************************)
TYPE_LENGTH == 1
TIMESTAMP_LENGTH == 8
VERSION_LENGTH == 8
SUFFIX_RESERVE_LENGTH == 16
BASE_META_VALUE_COUNT_LENGTH == 4
\* | reserve 16 | ctime 8 | etime 8 |: what follows the payload of a string.
\* ParsedStringsValue::new takes the payload to be len - TYPE_LENGTH - this,
\* and set_ctime_to_value puts ctime at len - this + SUFFIX_RESERVE_LENGTH:
\* both fit StringValue::encode only for 32 (the type byte is not counted).
STRING_VALUE_SUFFIXLENGTH == SUFFIX_RESERVE_LENGTH + 2 * TIMESTAMP_LENGTH
\* | version 8 | reserve 16 | ctime 8 | etime 8 |: what follows the payload
\* (the count) of a container metadata record.  set_version_to_value puts
\* the version at len - this, ParsedBaseMetaValue::new reads ctime at
\* len - this + 24 and set_ctime_to_value writes it at len - 16: 40 (neither
\* the type byte nor the count is counted).
BASE_META_VALUE_SUFFIX_LENGTH ==
    VERSION_LENGTH + SUFFIX_RESERVE_LENGTH + 2 * TIMESTAMP_LENGTH
\* | reserve 16 | ctime 8 |: what follows the payload of a bare data record
BASE_DATA_VALUE_SUFFIX_LENGTH == SUFFIX_RESERVE_LENGTH + TIMESTAMP_LENGTH

(***************************************************************************)
(* DataType: the closed set of type tags and its one-byte representation.  *)
(***************************************************************************)
DataType == {"String", "Hash", "Set", "List", "ZSet", "None"}
DataType_as_u8(t) ==
    CASE t = "String" -> 0
      [] t = "Hash" -> 1
      [] t = "Set" -> 2
      [] t = "List" -> 3
      [] t = "ZSet" -> 4
      [] t = "None" -> 5
TagBytes == {DataType_as_u8(t) : t \in DataType}
\* DataType::try_from(byte): Ok(tag), or an error for a byte that is no tag
DataType_try_from(byte) ==
    IF byte \in TagBytes
    THEN [tag |-> "Ok", data_type |-> CHOOSE t \in DataType : DataType_as_u8(t) = byte]
    ELSE [tag |-> "Err", err |-> "InvalidFormat"]

\* Rust's 0..n as the set of 0-based positions start..end-1 is kept as a pair
Range(start, end) == [start |-> start, end |-> end]
Zeros(n) == [i \in 1..n |-> 0]

(***************************************************************************)
(* Outcomes of a call: Ok with a value, an InvalidFormat error, or a panic *)
(* (a failed assertion, an arithmetic overflow under overflow checks, an   *)
(* out-of-range slice, todo!()).                                           *)
(***************************************************************************)
Ok(v) == [tag |-> "Ok", v |-> v]
InvalidFormat == [tag |-> "Err", err |-> "InvalidFormat"]
Panic(why) == [tag |-> "Panic", why |-> why]

\* a - b on usize.  With overflow checks an underflow panics; without, the
\* result wraps modulo 2^64 and is kept as the representative a - b < 0
\* of its residue (2^64 + a - b), on which + and - stay exact modulo 2^64.
usize_sub(a, b, profile) ==
    IF a >= b \/ ~overflow_checks(profile) THEN Ok(a - b)
    ELSE Panic("attempt to subtract with overflow")

\* &value[start..]: panics unless 0 <= start <= len (a negative representative
\* stands for a residue near 2^64, which is out of range)
SliceFrom(value, start) ==
    IF 0 <= start /\ start <= Len(value)
    THEN Ok(SubSeq(value, start + 1, Len(value)))
    ELSE Panic("range start index out of range for slice")

\* &value[start..end]: panics unless 0 <= start <= end <= len
Slice(value, start, end) ==
    IF 0 <= start /\ start <= end /\ end <= Len(value)
    THEN Ok(SubSeq(value, start + 1, end))
    ELSE Panic("range index out of range for slice")

(***************************************************************************)
(* base_value_format: the envelope.                                        *)
(***************************************************************************)
\* InternalValue::new(data_type, user_value): version 0, reserve zeroed,
\* etime 0; ctime and etime are then set by the caller
InternalValue_new(data_type, user_value) ==
    [data_type |-> data_type, user_value |-> user_value,
     reserve |-> Zeros(SUFFIX_RESERVE_LENGTH), version |-> U64Zero,
     ctime |-> U64Zero, etime |-> U64Zero]

\* ParsedInternalValue::new: owns the buffer, keeps the ranges and the fields
ParsedInternalValue_new(value, data_type, user_value_range, reserve_range, version, ctime, etime) ==
    [value |-> value, data_type |-> data_type,
     user_value_range |-> user_value_range, reserve_range |-> reserve_range,
     version |-> version, ctime |-> ctime, etime |-> etime]

\* ParsedInternalValue::is_stale against the sampled wall clock
is_stale(base, now) == base.etime # U64Zero /\ U64Le(base.etime, now)

\* ParsedInternalValue::filter_decision(current_time)
filter_decision(base, current_time) ==
    IF is_stale(base, current_time) THEN "Remove" ELSE "Keep"

(***************************************************************************)
(* strings_value_format                                                    *)
(***************************************************************************)
StringValue_new(user_value) == InternalValue_new("String", user_value)

\* StringValue::encode: | type | value | reserve (zeros) | ctime | etime |
StringValue_encode(inner) ==
    <<DataType_as_u8("String")>> \o inner.user_value
        \o Zeros(SUFFIX_RESERVE_LENGTH)
        \o u64_to_le_bytes(inner.ctime) \o u64_to_le_bytes(inner.etime)

\* ParsedStringsValue::new, from the subtraction of line 88 on
ParsedStringsValue_new_ranges(value, data_type, profile) ==
    LET user_value_len ==
            usize_sub(Len(value) - TYPE_LENGTH, STRING_VALUE_SUFFIXLENGTH, profile)
    IN  IF user_value_len.tag = "Panic" THEN user_value_len
        ELSE
        LET user_value_start == TYPE_LENGTH
            user_value_end == user_value_start + user_value_len.v
            reserve_start == user_value_end
            reserve_end == reserve_start + SUFFIX_RESERVE_LENGTH
            time_reader == SliceFrom(value, reserve_end)
        IN  IF time_reader.tag = "Panic" THEN time_reader
            ELSE IF debug_assertions(profile)
                    /\ Len(time_reader.v) < 2 * TIMESTAMP_LENGTH
            THEN Panic("assertion failed: time_reader.len() >= 2 * TIMESTAMP_LENGTH")
            ELSE IF Len(time_reader.v) < 2 * TIMESTAMP_LENGTH THEN InvalidFormat
            ELSE Ok(ParsedInternalValue_new(
                       value, data_type,
                       Range(user_value_start, user_value_end),
                       Range(reserve_start, reserve_end),
                       U64Zero,
                       u64_from_le_bytes(time_reader.v),
                       u64_from_le_bytes(
                           SubSeq(time_reader.v, TIMESTAMP_LENGTH + 1,
                                  2 * TIMESTAMP_LENGTH))))

\* ParsedStringsValue::new(internal_value)
ParsedStringsValue_new(value, profile) ==
    IF debug_assertions(profile) /\ Len(value) < STRING_VALUE_SUFFIXLENGTH
    THEN Panic("assertion failed: value.len() >= STRING_VALUE_SUFFIXLENGTH")
    ELSE IF Len(value) < STRING_VALUE_SUFFIXLENGTH THEN InvalidFormat
    ELSE IF DataType_try_from(value[1]).tag = "Err" THEN InvalidFormat
    ELSE ParsedStringsValue_new_ranges(
             value, DataType_try_from(value[1]).data_type, profile)

(***************************************************************************)
(* base_data_value_format                                                  *)
(***************************************************************************)
BaseDataValue_new(user_value) == InternalValue_new("None", user_value)

\* BaseDataValue::encode: | value | reserve | ctime |
BaseDataValue_encode(inner) ==
    inner.user_value \o inner.reserve \o u64_to_le_bytes(inner.ctime)

\* ParsedBaseDataValue::new(internal_value)
ParsedBaseDataValue_new(value, profile) ==
    IF debug_assertions(profile)
       /\ Len(value) < SUFFIX_RESERVE_LENGTH + TIMESTAMP_LENGTH
    THEN Panic("assertion failed: value.len() >= SUFFIX_RESERVE_LENGTH + TIMESTAMP_LENGTH")
    ELSE IF Len(value) < SUFFIX_RESERVE_LENGTH + TIMESTAMP_LENGTH THEN InvalidFormat
    ELSE IF DataType_try_from(value[1]).tag = "Err" THEN InvalidFormat
    ELSE
    LET user_value_size == Len(value) - SUFFIX_RESERVE_LENGTH - TIMESTAMP_LENGTH
        ctime_start == user_value_size + SUFFIX_RESERVE_LENGTH
    IN  Ok(ParsedInternalValue_new(
               value, DataType_try_from(value[1]).data_type,
               Range(0, user_value_size),
               Range(user_value_size, user_value_size + SUFFIX_RESERVE_LENGTH),
               U64Zero,
               u64_from_le_bytes(SubSeq(value, ctime_start + 1, Len(value))),
               U64Zero))

(***************************************************************************)
(* base_meta_value_format                                                  *)
(***************************************************************************)
BaseMetaValue_new(user_value) == InternalValue_new("None", user_value)

\* encode writing the two timestamps in the other order
BaseMetaValue_encode_etime_first(inner) ==
    <<DataType_as_u8(inner.data_type)>> \o inner.user_value
        \o u64_to_le_bytes(inner.version) \o inner.reserve
        \o u64_to_le_bytes(inner.etime) \o u64_to_le_bytes(inner.ctime)

\* BaseMetaValue::encode: | type | value | version | reserve | ctime | etime |
BaseMetaValue_encode(inner) ==
    <<DataType_as_u8(inner.data_type)>> \o inner.user_value
        \o u64_to_le_bytes(inner.version) \o inner.reserve
        \o u64_to_le_bytes(inner.ctime) \o u64_to_le_bytes(inner.etime)

\* ParsedBaseMetaValue::new, from the count of line 115 on.  Every slice is
\* taken at version_start = len - BASE_META_VALUE_SUFFIX_LENGTH and after,
\* which the length check has put in range.
ParsedBaseMetaValue_new_fields(value, data_type, profile) ==
    LET count == u32_from_le_bytes_as_i32(
                     SubSeq(value, TYPE_LENGTH + 1,
                            TYPE_LENGTH + BASE_META_VALUE_COUNT_LENGTH))
        user_value_size ==
            usize_sub(Len(value) - TYPE_LENGTH, BASE_META_VALUE_SUFFIX_LENGTH, profile)
    IN  IF user_value_size.tag = "Panic" THEN user_value_size
        ELSE
        LET user_value_start == TYPE_LENGTH
            user_value_end == user_value_start + user_value_size.v
            version_start == user_value_end
            version_end == version_start + VERSION_LENGTH
            version_bytes == Slice(value, version_start, version_end)
            reserve_start == version_end
            reserve_end == reserve_start + SUFFIX_RESERVE_LENGTH
            ctime_start == reserve_end
            ctime_end == ctime_start + TIMESTAMP_LENGTH
            ctime_bytes == Slice(value, ctime_start, ctime_end)
            etime_start == ctime_end
            etime_end == etime_start + TIMESTAMP_LENGTH
            etime_bytes == Slice(value, etime_start, etime_end)
        IN  IF version_bytes.tag = "Panic" THEN version_bytes
            ELSE IF ctime_bytes.tag = "Panic" THEN ctime_bytes
            ELSE IF etime_bytes.tag = "Panic" THEN etime_bytes
            ELSE Ok([base |-> ParsedInternalValue_new(
                                  value, data_type,
                                  Range(user_value_start, user_value_end),
                                  Range(reserve_start, reserve_end),
                                  u64_from_le_bytes(version_bytes.v),
                                  u64_from_le_bytes(ctime_bytes.v),
                                  u64_from_le_bytes(etime_bytes.v)),
                     count |-> count])

\* ParsedBaseMetaValue::new(internal_value)
ParsedBaseMetaValue_new(value, profile) ==
    IF Len(value) < BASE_META_VALUE_SUFFIX_LENGTH THEN InvalidFormat
    ELSE IF DataType_try_from(value[1]).tag = "Err" THEN InvalidFormat
    ELSE ParsedBaseMetaValue_new_fields(
             value, DataType_try_from(value[1]).data_type, profile)

\* copy_from_slice into &mut value[start..start + Len(bytes)]
Patch(value, start, bytes) ==
    [i \in 1..Len(value) |->
        IF start < i /\ i <= start + Len(bytes) THEN bytes[i - start] ELSE value[i]]

\* &mut value[start..start + n] is in range (otherwise the index panics)
InRange(value, start, n) == 0 <= start /\ start + n <= Len(value)

\* ParsedBaseMetaValue::set_version_to_value
set_version_to_value(m) ==
    LET suffix_start == Len(m.base.value) - BASE_META_VALUE_SUFFIX_LENGTH
    IN  IF InRange(m.base.value, suffix_start, VERSION_LENGTH)
        THEN Ok([m EXCEPT !.base.value =
                    Patch(@, suffix_start, u64_to_le_bytes(m.base.version))])
        ELSE Panic("range index out of range for slice")

\* ParsedBaseMetaValue::set_ctime_to_value
set_ctime_to_value(m) ==
    LET suffix_start == Len(m.base.value) - 2 * TIMESTAMP_LENGTH
    IN  IF InRange(m.base.value, suffix_start, TIMESTAMP_LENGTH)
        THEN Ok([m EXCEPT !.base.value =
                    Patch(@, suffix_start, u64_to_le_bytes(m.base.ctime))])
        ELSE Panic("range index out of range for slice")

\* set_etime_to_value writing at the offset of ctime
set_etime_to_value_at_ctime(m) ==
    LET suffix_start == Len(m.base.value) - 2 * TIMESTAMP_LENGTH
    IN  IF InRange(m.base.value, suffix_start, TIMESTAMP_LENGTH)
        THEN Ok([m EXCEPT !.base.value =
                    Patch(@, suffix_start, u64_to_le_bytes(m.base.etime))])
        ELSE Panic("range index out of range for slice")

\* ParsedBaseMetaValue::set_etime_to_value
set_etime_to_value(m) ==
    LET suffix_start == Len(m.base.value) - TIMESTAMP_LENGTH
    IN  IF InRange(m.base.value, suffix_start, TIMESTAMP_LENGTH)
        THEN Ok([m EXCEPT !.base.value =
                    Patch(@, suffix_start, u64_to_le_bytes(m.base.etime))])
        ELSE Panic("range index out of range for slice")

\* ParsedBaseMetaValue::is_valid, with the wall clock is_stale samples
is_valid(m, now) == ~is_stale(m.base, now) /\ m.count # 0

\* ParsedBaseMetaValue::count
count(m) == m.count

\* ParsedBaseMetaValue::set_count: assigns the field, and nothing else
set_count(m, c) == Ok([m EXCEPT !.count = c])

\* ParsedBaseMetaValue::set_etime
set_etime(m, etime) == set_etime_to_value([m EXCEPT !.base.etime = etime])

\* ParsedBaseMetaValue::set_ctime
set_ctime(m, ctime) == set_ctime_to_value([m EXCEPT !.base.ctime = ctime])

\* ParsedBaseMetaValue::modify_count
modify_count(m, delta) ==
    LET c == i32_saturating_add(m.count, delta)
    IN  IF InRange(m.base.value, TYPE_LENGTH, BASE_META_VALUE_COUNT_LENGTH)
        THEN Ok([m EXCEPT !.count = c,
                          !.base.value = Patch(@, TYPE_LENGTH, i32_to_le_bytes(c))])
        ELSE Panic("range index out of range for slice")

\* the version update_version stores for a stored version and a clock sample:
\* version + 1 when version >= now (u64 addition: at u64::MAX it panics under
\* overflow checks and wraps to 0 without), now otherwise
next_version(version, now, profile) ==
    IF U64Le(now, version)
    THEN IF version = U64Max /\ overflow_checks(profile)
         THEN Panic("attempt to add with overflow")
         ELSE Ok(U64WrappingInc(version))
    ELSE Ok(now)

\* ParsedBaseMetaValue::update_version: Ok(record) carries the new version,
\* which is also the value returned
update_version(m, now, profile) ==
    LET v == next_version(m.base.version, now, profile)
    IN  IF v.tag = "Panic" THEN v
        ELSE set_version_to_value([m EXCEPT !.base.version = v.v])

\* ParsedBaseMetaValue::initial_meta_value
initial_meta_value(m, now, profile) ==
    LET a == set_count(m, 0)
        b == set_etime(a.v, U64Zero)
        c == set_ctime(b.v, U64Zero)
    IN  IF b.tag = "Panic" THEN b
        ELSE IF c.tag = "Panic" THEN c
        ELSE update_version(c.v, now, profile)

\* u32::MAX as usize
U32_MAX == <<0, 0, Limb - 1, Limb - 1>>

\* ParsedBaseMetaValue::check_set_count(count: usize)
check_set_count(m, c) == U64Le(c, U32_MAX)

\* count as i32, the conversion set_count's parameter asks of a usize: the
\* low 32 bits, bit 31 read as the sign
usize_as_i32(c) == u32_from_le_bytes_as_i32(SubSeq(u64_to_le_bytes(c), 1, 4))

\* i32::checked_add: None on overflow
i32_checked_add(c, d) ==
    IF (d > 0 /\ c > I32_MAX - d) \/ (d < 0 /\ c < I32_MIN - d)
    THEN [some |-> FALSE]
    ELSE [some |-> TRUE, v |-> c + d]

\* check_modify_count accepting a sum below 0
check_modify_count_unsigned(m, delta) ==
    LET new_count == i32_checked_add(m.count, delta)
    IN  IF new_count.some THEN new_count.v <= I32_MAX ELSE FALSE

\* ParsedBaseMetaValue::check_modify_count
check_modify_count(m, delta) ==
    LET new_count == i32_checked_add(m.count, delta)
    IN  IF new_count.some THEN new_count.v >= 0 /\ new_count.v <= I32_MAX ELSE FALSE

\* BaseMetaValue::update_version on the encode-side value
BaseMetaValue_update_version(inner, now, profile) ==
    LET v == next_version(inner.version, now, profile)
    IN  IF v.tag = "Panic" THEN v ELSE Ok([inner EXCEPT !.version = v.v])

(***************************************************************************)
(* strip_suffix                                                            *)
(***************************************************************************)
\* strip_suffix that leaves the type byte in front of the payload
ParsedStringsValue_strip_suffix_keeping_type(pv) ==
    LET len == Len(pv.value)
    IN  Ok([pv EXCEPT !.value =
                IF len >= STRING_VALUE_SUFFIXLENGTH
                THEN SubSeq(pv.value, 1, len - STRING_VALUE_SUFFIXLENGTH)
                ELSE pv.value])

\* ParsedStringsValue::strip_suffix: advance(TYPE_LENGTH), which panics on a
\* buffer it cannot advance in, then truncate when the suffix fits
ParsedStringsValue_strip_suffix(pv) ==
    IF Len(pv.value) < TYPE_LENGTH
    THEN Panic("cannot advance past remaining")
    ELSE LET advanced == SubSeq(pv.value, TYPE_LENGTH + 1, Len(pv.value))
             len == Len(advanced)
         IN  Ok([pv EXCEPT !.value =
                     IF len >= STRING_VALUE_SUFFIXLENGTH
                     THEN SubSeq(advanced, 1, len - STRING_VALUE_SUFFIXLENGTH)
                     ELSE advanced])

\* ParsedBaseDataValue::strip_suffix: truncate to len.saturating_sub(suffix)
ParsedBaseDataValue_strip_suffix(pv) ==
    LET len == Len(pv.value)
        new_len == IF len >= BASE_DATA_VALUE_SUFFIX_LENGTH
                   THEN len - BASE_DATA_VALUE_SUFFIX_LENGTH ELSE 0
    IN  Ok([pv EXCEPT !.value = SubSeq(pv.value, 1, new_len)])

(***************************************************************************)
(* lists_meta_value_format                                                 *)
(***************************************************************************)
LIST_VALUE_INDEX_LENGTH == 8
\* | version 8 | left index 8 | right index 8 | reserve 16 | ctime 8 | etime 8 |
LISTS_META_VALUE_SUFFIX_LENGTH ==
    VERSION_LENGTH + 2 * LIST_VALUE_INDEX_LENGTH + SUFFIX_RESERVE_LENGTH
        + 2 * TIMESTAMP_LENGTH
\* 9_223_372_036_854_775_807 = 2^63 - 1 and 9_223_372_036_854_775_808 = 2^63
INITIAL_LEFT_INDEX == <<(Limb \div 2) - 1, Limb - 1, Limb - 1, Limb - 1>>
INITIAL_RIGHT_INDEX == <<Limb \div 2, 0, 0, 0>>

\* a + b and a - b on u64, limb by limb: the 64-bit result and the carry
\* (borrow) out of the top limb
U64AddCarry(a, b) ==
    LET s4 == a[4] + b[4]
        s3 == a[3] + b[3] + (s4 \div Limb)
        s2 == a[2] + b[2] + (s3 \div Limb)
        s1 == a[1] + b[1] + (s2 \div Limb)
    IN  [v |-> <<s1 % Limb, s2 % Limb, s3 % Limb, s4 % Limb>>, carry |-> s1 \div Limb]
U64SubBorrow(a, b) ==
    LET d4 == a[4] - b[4]
        d3 == a[3] - b[3] - (IF d4 < 0 THEN 1 ELSE 0)
        d2 == a[2] - b[2] - (IF d3 < 0 THEN 1 ELSE 0)
        d1 == a[1] - b[1] - (IF d2 < 0 THEN 1 ELSE 0)
    IN  [v |-> <<d1 % Limb, d2 % Limb, d3 % Limb, d4 % Limb>>,
         borrow |-> IF d1 < 0 THEN 1 ELSE 0]

\* a + b on u64: panics on overflow under overflow checks, wraps without
u64_add(a, b, profile) ==
    IF U64AddCarry(a, b).carry = 1 /\ overflow_checks(profile)
    THEN Panic("attempt to add with overflow")
    ELSE Ok(U64AddCarry(a, b).v)

\* a - b on u64
u64_sub(a, b, profile) ==
    IF U64SubBorrow(a, b).borrow = 1 /\ overflow_checks(profile)
    THEN Panic("attempt to subtract with overflow")
    ELSE Ok(U64SubBorrow(a, b).v)

\* ListsMetaValue::new(user_value)
ListsMetaValue_new(user_value) ==
    [inner |-> InternalValue_new("List", user_value),
     left_index |-> INITIAL_LEFT_INDEX, right_index |-> INITIAL_RIGHT_INDEX]

\* ListsMetaValue::encode:
\* | type | value | version | left index | right index | reserve | ctime | etime |
ListsMetaValue_encode(l) ==
    <<DataType_as_u8(l.inner.data_type)>> \o l.inner.user_value
        \o u64_to_le_bytes(l.inner.version)
        \o u64_to_le_bytes(l.left_index) \o u64_to_le_bytes(l.right_index)
        \o l.inner.reserve
        \o u64_to_le_bytes(l.inner.ctime) \o u64_to_le_bytes(l.inner.etime)

\* ListsMetaValue::update_version
ListsMetaValue_update_version(l, now, profile) ==
    LET v == next_version(l.inner.version, now, profile)
    IN  IF v.tag = "Panic" THEN v ELSE Ok([l EXCEPT !.inner.version = v.v])

ListsMetaValue_left_index(l) == l.left_index
ListsMetaValue_right_index(l) == l.right_index

\* modify_left_index moving the index up, as modify_right_index does
ListsMetaValue_modify_left_index_adding(l, index, profile) ==
    LET r == u64_add(l.left_index, index, profile)
    IN  IF r.tag = "Panic" THEN r ELSE Ok([l EXCEPT !.left_index = r.v])

\* ListsMetaValue::modify_left_index: self.left_index -= index
ListsMetaValue_modify_left_index(l, index, profile) ==
    LET r == u64_sub(l.left_index, index, profile)
    IN  IF r.tag = "Panic" THEN r ELSE Ok([l EXCEPT !.left_index = r.v])

\* modify_right_index moving the index down, as modify_left_index does
ListsMetaValue_modify_right_index_subtracting(l, index, profile) ==
    LET r == u64_sub(l.right_index, index, profile)
    IN  IF r.tag = "Panic" THEN r ELSE Ok([l EXCEPT !.right_index = r.v])

\* ListsMetaValue::modify_right_index: self.right_index += index
ListsMetaValue_modify_right_index(l, index, profile) ==
    LET r == u64_add(l.right_index, index, profile)
    IN  IF r.tag = "Panic" THEN r ELSE Ok([l EXCEPT !.right_index = r.v])

\* ParsedListsMetaValue::new, from the count on: the fields are read front
\* to back at fixed positions, each through an indexing that panics when the
\* buffer ends before it.  The count is the 4-byte little-endian field (the
\* source hands the four bytes to u64::from_le_bytes), widened to u64.
ParsedListsMetaValue_new_fields(value, data_type) ==
    LET count_start == TYPE_LENGTH
        version_start == count_start + BASE_META_VALUE_COUNT_LENGTH
        left_start == version_start + VERSION_LENGTH
        right_start == left_start + LIST_VALUE_INDEX_LENGTH
        reserve_start == right_start + LIST_VALUE_INDEX_LENGTH
        ctime_start == reserve_start + SUFFIX_RESERVE_LENGTH
        etime_start == ctime_start + TIMESTAMP_LENGTH
        count_bytes == Slice(value, count_start, version_start)
        version_bytes == Slice(value, version_start, left_start)
        left_bytes == Slice(value, left_start, right_start)
        right_bytes == Slice(value, right_start, reserve_start)
        ctime_bytes == Slice(value, ctime_start, etime_start)
        etime_bytes == Slice(value, etime_start, etime_start + TIMESTAMP_LENGTH)
    IN  IF count_bytes.tag = "Panic" THEN count_bytes
        ELSE IF version_bytes.tag = "Panic" THEN version_bytes
        ELSE IF left_bytes.tag = "Panic" THEN left_bytes
        ELSE IF right_bytes.tag = "Panic" THEN right_bytes
        ELSE IF ctime_bytes.tag = "Panic" THEN ctime_bytes
        ELSE IF etime_bytes.tag = "Panic" THEN etime_bytes
        ELSE Ok([base |-> ParsedInternalValue_new(
                              value, data_type,
                              Range(count_start, version_start),
                              Range(reserve_start, ctime_start),
                              u64_from_le_bytes(version_bytes.v),
                              u64_from_le_bytes(ctime_bytes.v),
                              u64_from_le_bytes(etime_bytes.v)),
                 count |-> u64_from_le_bytes(count_bytes.v \o Zeros(4)),
                 left_index |-> u64_from_le_bytes(left_bytes.v),
                 right_index |-> u64_from_le_bytes(right_bytes.v)])

\* ParsedListsMetaValue::new(internal_value)
ParsedListsMetaValue_new(value) ==
    IF Len(value) < LISTS_META_VALUE_SUFFIX_LENGTH THEN InvalidFormat
    ELSE IF DataType_try_from(value[1]).tag = "Err" THEN InvalidFormat
    ELSE ParsedListsMetaValue_new_fields(value, DataType_try_from(value[1]).data_type)

\* ParsedListsMetaValue's accessors
ParsedListsMetaValue_count(pl) == pl.count
ParsedListsMetaValue_left_index(pl) == pl.left_index
ParsedListsMetaValue_right_index(pl) == pl.right_index

\* ParsedListsMetaValue::set_count, set_left_index, set_right_index,
\* modify_left_index, modify_right_index: the bodies are empty
ParsedListsMetaValue_set_count(pl, c) == pl
ParsedListsMetaValue_set_left_index(pl, index) == pl
ParsedListsMetaValue_set_right_index(pl, index) == pl
ParsedListsMetaValue_modify_left_index(pl, index) == pl
ParsedListsMetaValue_modify_right_index(pl, index) == pl

\* ParsedListsMetaValue::initial_meta_value: the three setters, then 0
ParsedListsMetaValue_initial_meta_value(pl) ==
    ParsedListsMetaValue_set_right_index(
        ParsedListsMetaValue_set_left_index(
            ParsedListsMetaValue_set_count(pl, U64Zero), INITIAL_LEFT_INDEX),
        INITIAL_RIGHT_INDEX)

(***************************************************************************)
(* base_filter                                                             *)
(***************************************************************************)
\* filter with the decision of a parsed String record dropped: the record is
\* kept whatever its expiration
filter_ignoring_etime(value, current_time, profile) ==
    IF Len(value) = 0 THEN "Remove"
    ELSE IF DataType_try_from(value[1]).tag = "Err" THEN "Remove"
    ELSE IF DataType_try_from(value[1]).data_type = "String"
         THEN LET pv == ParsedStringsValue_new(value, profile)
              IN  CASE pv.tag = "Ok" -> "Keep"
                    [] pv.tag = "Err" -> "Remove"
                    [] pv.tag = "Panic" -> "Panic"
    ELSE "Panic"

\* filter doing what its log message for the empty value says ("keeping")
filter_keeping_empty(value, current_time, profile) ==
    IF Len(value) = 0 THEN "Keep"
    ELSE IF DataType_try_from(value[1]).tag = "Err" THEN "Remove"
    ELSE IF DataType_try_from(value[1]).data_type = "String"
         THEN LET pv == ParsedStringsValue_new(value, profile)
              IN  CASE pv.tag = "Ok" -> filter_decision(pv.v, current_time)
                    [] pv.tag = "Err" -> "Remove"
                    [] pv.tag = "Panic" -> "Panic"
    ELSE "Panic"

\* BaseMetaFilter::filter(level, key, value) with the wall clock it samples:
\* "Keep", "Remove", or "Panic" when the invocation unwinds.  The key only
\* feeds the debug messages.
filter(value, current_time, profile) ==
    IF Len(value) = 0 THEN "Remove"
    ELSE IF DataType_try_from(value[1]).tag = "Err" THEN "Remove"
    ELSE IF DataType_try_from(value[1]).data_type = "String"
         THEN LET pv == ParsedStringsValue_new(value, profile)
              IN  CASE pv.tag = "Ok" -> filter_decision(pv.v, current_time)
                    [] pv.tag = "Err" -> "Remove"
                    [] pv.tag = "Panic" -> "Panic"
    ELSE IF DataType_try_from(value[1]).data_type = "List"
         THEN "Panic"      \* todo!()
    ELSE "Panic"           \* todo!()

(***************************************************************************)
(* Inputs.                                                                 *)
(***************************************************************************)
\* timestamps: the small ones and the two largest u64
Times == {U64Of(n) : n \in 0..MaxClock} \cup {U64WrappingDec(U64Max), U64Max}
\* samples of the wall clock (Utc::now().timestamp_micros() as u64)
ClockSamples == Times
\* bytes of a payload: a tag byte, a letter, the largest byte
PayloadBytes == {0, 116, 255}
Payloads == UNION {[1..n -> PayloadBytes] : n \in 0..MaxPayload}
\* element counts: i32 samples at and around the boundaries
Counts == {0, 3, -1, I32_MAX}
Deltas == {3, -3, 1, I32_MAX, I32_MIN}

\* encode-side values as a command handler builds them
StringValues ==
    {[StringValue_new(p) EXCEPT !.ctime = ct, !.etime = et] :
        p \in Payloads, ct \in {U64Of(1)}, et \in Times}
BaseDataValues ==
    {[BaseDataValue_new(p) EXCEPT !.ctime = ct] : p \in Payloads, ct \in Times}
\* a container metadata value: the payload is the 4-byte count
BaseMetaValues ==
    {[BaseMetaValue_new(i32_to_le_bytes(c))
        EXCEPT !.version = v, !.ctime = U64Of(1), !.etime = et] :
        c \in Counts, v \in Times, et \in {U64Zero, U64Of(2)}}

\* arbitrary stored bytes: every length up to MaxRawLen, a first byte that
\* is a tag or not, one fill byte
RawFirstBytes == TagBytes \cup {6, 255}
RawFill == {0, 255}
Raw(n, first, fill) == [i \in 1..n |-> IF i = 1 THEN first ELSE fill]
RawBuffers ==
    {Raw(n, first, fill) : n \in 0..MaxRawLen, first \in RawFirstBytes, fill \in RawFill}

\* counts a caller holds as usize: around i32::MAX and u32::MAX
UsizeCounts ==
    {U64Zero, U64Of(3), U64Of(I32_MAX), U64WrappingInc(U64Of(I32_MAX)),
     U32_MAX, U64WrappingInc(U32_MAX)}
\* numbers of elements pushed: none, one, two, and all but one of the 2^63 - 1
\* positions below the initial left index
Indexes == {U64Zero, U64Of(1), U64Of(2), U64WrappingDec(INITIAL_LEFT_INDEX)}
\* list metadata values: the payload is the 4-byte count
ListCounts == {0, 3}
ListsMetaValues ==
    {[ListsMetaValue_new(i32_to_le_bytes(c))
        EXCEPT !.left_index = li, !.right_index = ri] :
        c \in ListCounts,
        li \in {INITIAL_LEFT_INDEX, U64WrappingDec(INITIAL_LEFT_INDEX)},
        ri \in {INITIAL_RIGHT_INDEX, U64WrappingInc(INITIAL_RIGHT_INDEX)}}
\* the buffers a list metadata record is read from: encoded values, and
\* stored bytes tagged List of the lengths around the layout's
ListBuffers ==
    {ListsMetaValue_encode(l) : l \in ListsMetaValues}
        \cup {Raw(n, DataType_as_u8("List"), fill) :
                n \in LISTS_META_VALUE_SUFFIX_LENGTH..(TYPE_LENGTH
                        + BASE_META_VALUE_COUNT_LENGTH + LISTS_META_VALUE_SUFFIX_LENGTH),
                fill \in RawFill}

NoInner == InternalValue_new("None", <<>>)
NoMeta ==
    [base |-> ParsedInternalValue_new(<<>>, "None", Range(0, 0), Range(0, 0),
                                      U64Zero, U64Zero, U64Zero),
     count |-> 0]

NoList == ListsMetaValue_new(<<>>)
NoLife == [phase |-> "none", n |-> 0]

(***************************************************************************)
(* State.                                                                  *)
(***************************************************************************)
VARIABLES
    profile,    \* the build profile of the process
    budget,     \* how many calls on one held record are followed
    mstate,     \* "none" | "live" | "panicked": the parsed metadata record held
    meta,       \* the ParsedBaseMetaValue held (NoMeta when none is)
    returned,   \* the values update_version has returned on this record
    calls,      \* calls made on the held record
    life,       \* how far the held record is in initial, grown, emptied
    checked,    \* every change of its count so far was a checked modify_count
    pushes,     \* the calls made on the held list record, in order
    lstate,     \* "none" | "value" | "parsed" | "panicked": the list record held
    list,       \* the ListsMetaValue or ParsedListsMetaValue held
    last        \* the last call: its inputs and its outcome

\* the held container metadata record and what has been done with it
record == <<mstate, meta, returned, life, checked>>
\* the held list metadata record
lists == <<lstate, list, pushes>>
vars == <<profile, budget, calls, record, lists, last>>

\* no record is held and no call has been made
NothingHeld ==
    /\ mstate = "none"
    /\ meta = NoMeta
    /\ returned = <<>>
    /\ calls = 0
    /\ life = NoLife
    /\ checked = TRUE
    /\ lstate = "none"
    /\ list = NoList
    /\ pushes = <<>>
    /\ last = [op |-> "none"]

Init ==
    /\ profile \in Profiles
    /\ budget = MaxCalls
    /\ NothingHeld

\* the calls are followed one at a time: a stateless call is made while no
\* record is held and no other call's outcome is being looked at (the calls
\* share no state with each other or with a held record)
Idle == mstate = "none" /\ lstate = "none" /\ last.op = "none"

\* BaseMetaFilter::filter on arbitrary stored bytes
Filter ==
    /\ Idle
    /\ \E value \in RawBuffers, now \in ClockSamples :
         last' = [op |-> "filter", encoded |-> FALSE, inner |-> NoInner,
                  value |-> value, now |-> now,
                  decision |-> filter(value, now, profile)]
    /\ UNCHANGED <<profile, budget, calls, record, lists>>

\* BaseMetaFilter::filter on an encoded StringValue (test_strings_filter)
FilterStringValue ==
    /\ Idle
    /\ \E inner \in StringValues, now \in ClockSamples :
         last' = [op |-> "filter", encoded |-> TRUE, inner |-> inner,
                  value |-> StringValue_encode(inner), now |-> now,
                  decision |-> filter(StringValue_encode(inner), now, profile)]
    /\ UNCHANGED <<profile, budget, calls, record, lists>>

\* a parse-side constructor on arbitrary stored bytes
ParseRaw ==
    /\ Idle
    /\ \E value \in RawBuffers :
         \/ last' = [op |-> "parse", kind |-> "String", encoded |-> FALSE,
                     inner |-> NoInner, value |-> value,
                     result |-> ParsedStringsValue_new(value, profile)]
         \/ last' = [op |-> "parse", kind |-> "BaseData", encoded |-> FALSE,
                     inner |-> NoInner, value |-> value,
                     result |-> ParsedBaseDataValue_new(value, profile)]
         \/ last' = [op |-> "parse", kind |-> "BaseMeta", encoded |-> FALSE,
                     inner |-> NoInner, value |-> value,
                     result |-> ParsedBaseMetaValue_new(value, profile)]
    /\ UNCHANGED <<profile, budget, calls, record, lists>>

\* ParsedStringsValue::new(StringValue::encode(v))
EncodeParseString ==
    /\ Idle
    /\ \E inner \in StringValues :
         last' = [op |-> "parse", kind |-> "String", encoded |-> TRUE,
                  inner |-> inner, value |-> StringValue_encode(inner),
                  result |-> ParsedStringsValue_new(StringValue_encode(inner), profile)]
    /\ UNCHANGED <<profile, budget, calls, record, lists>>

\* ParsedBaseDataValue::new(BaseDataValue::encode(v))
EncodeParseBaseData ==
    /\ Idle
    /\ \E inner \in BaseDataValues :
         last' = [op |-> "parse", kind |-> "BaseData", encoded |-> TRUE,
                  inner |-> inner, value |-> BaseDataValue_encode(inner),
                  result |-> ParsedBaseDataValue_new(BaseDataValue_encode(inner), profile)]
    /\ UNCHANGED <<profile, budget, calls, record, lists>>

\* ParsedBaseMetaValue::new(BaseMetaValue::encode(v))
EncodeParseBaseMeta ==
    /\ Idle
    /\ \E inner \in BaseMetaValues :
         last' = [op |-> "parse", kind |-> "BaseMeta", encoded |-> TRUE,
                  inner |-> inner, value |-> BaseMetaValue_encode(inner),
                  result |-> ParsedBaseMetaValue_new(BaseMetaValue_encode(inner), profile)]
    /\ UNCHANGED <<profile, budget, calls, record, lists>>

\* the buffers a metadata record is read from: encoded values, and stored
\* bytes that carry a container tag and every field of the layout
MetaBuffers ==
    {BaseMetaValue_encode(inner) : inner \in BaseMetaValues}
        \cup {Raw(n, DataType_as_u8("Hash"), fill) :
                n \in (TYPE_LENGTH + BASE_META_VALUE_COUNT_LENGTH
                          + BASE_META_VALUE_SUFFIX_LENGTH)..MaxRawLen,
                fill \in RawFill}

\* a read: ParsedBaseMetaValue::new succeeds and the caller holds the record
LoadMeta ==
    /\ Idle
    /\ \E value \in MetaBuffers :
         LET r == ParsedBaseMetaValue_new(value, profile)
         IN  /\ r.tag = "Ok"
             /\ meta' = r.v
             /\ last' = [op |-> "load", value |-> value]
    /\ mstate' = "live"
    /\ returned' = <<>>
    /\ calls' = 0
    /\ life' = [phase |-> "parsed", n |-> 0]
    /\ checked' = TRUE
    /\ UNCHANGED <<profile, budget, lists>>

\* where a call takes the held record in the life of a container: emptied by
\* initial_meta_value, grown by a modify_count(+n) right after, emptied again
\* by modify_count(-n) right after that
LifeAfter(op, arg, tag) ==
    IF tag # "Ok" THEN [phase |-> "other", n |-> 0]
    ELSE IF op = "initial_meta_value" THEN [phase |-> "initial", n |-> 0]
    ELSE IF op = "modify_count" /\ life.phase = "initial" /\ arg > 0
         THEN [phase |-> "grown", n |-> arg]
    ELSE IF op = "modify_count" /\ life.phase = "grown" /\ arg = -life.n
         THEN [phase |-> "emptied", n |-> life.n]
    ELSE [phase |-> "other", n |-> 0]

\* a modify_count(delta) made right after check_modify_count(delta) returned
\* true; and whether the count has so far only been changed by such calls
Approved(op, arg) ==
    /\ op = "modify_count"
    /\ last.op = "check_modify_count"
    /\ last.arg = arg
    /\ last.ret
CheckedAfter(op, arg) ==
    IF op = "modify_count" THEN checked /\ Approved(op, arg)
    ELSE IF op \in {"set_count", "set_count_checked", "initial_meta_value"} THEN FALSE
    ELSE checked

\* the outcome of a mutator call on the held record: the record is replaced,
\* or the call panics and the record is lost with the unwinding
Apply(op, arg, outcome) ==
    /\ mstate = "live"
    /\ calls < budget
    /\ calls' = calls + 1
    /\ last' = [op |-> op, arg |-> arg, before |-> meta, tag |-> outcome.tag,
                approved |-> Approved(op, arg)]
    /\ IF outcome.tag = "Ok"
       THEN mstate' = "live" /\ meta' = outcome.v
       ELSE mstate' = "panicked" /\ meta' = meta
    /\ life' = LifeAfter(op, arg, outcome.tag)
    /\ checked' = CheckedAfter(op, arg)
    /\ UNCHANGED <<profile, budget, lists>>

SetCount ==
    /\ \E c \in Counts : Apply("set_count", c, set_count(meta, c))
    /\ UNCHANGED returned

ModifyCount ==
    /\ \E delta \in Deltas : Apply("modify_count", delta, modify_count(meta, delta))
    /\ UNCHANGED returned

SetCtime ==
    /\ \E t \in {U64Zero, U64Of(MaxClock)} : Apply("set_ctime", t, set_ctime(meta, t))
    /\ UNCHANGED returned

SetEtime ==
    /\ \E t \in {U64Zero, U64Of(MaxClock), U64Max} :
         Apply("set_etime", t, set_etime(meta, t))
    /\ UNCHANGED returned

\* update_version returns the version it stored
UpdateVersion ==
    \E now \in ClockSamples :
        LET r == update_version(meta, now, profile)
        IN  /\ Apply("update_version", now, r)
            /\ returned' = IF r.tag = "Ok"
                           THEN Append(returned, r.v.base.version)
                           ELSE returned

\* initial_meta_value returns what its update_version returned
InitialMetaValue ==
    \E now \in ClockSamples :
        LET r == initial_meta_value(meta, now, profile)
        IN  /\ Apply("initial_meta_value", now, r)
            /\ returned' = IF r.tag = "Ok"
                           THEN Append(returned, r.v.base.version)
                           ELSE returned

\* strip_suffix on the record a parse has just returned
StripSuffix ==
    /\ mstate = "none"
    /\ lstate = "none"
    /\ last.op = "parse"
    /\ last.kind \in {"String", "BaseData"}
    /\ last.result.tag = "Ok"
    /\ last' = [op |-> "strip_suffix", kind |-> last.kind,
                encoded |-> last.encoded, inner |-> last.inner,
                before |-> last.result.v,
                result |-> IF last.kind = "String"
                           THEN ParsedStringsValue_strip_suffix(last.result.v)
                           ELSE ParsedBaseDataValue_strip_suffix(last.result.v)]
    /\ UNCHANGED <<profile, budget, calls, record, lists>>

\* update_version on an encode-side value; the value returned is the version
\* of the value the call leaves
ValueUpdateVersion ==
    /\ Idle
    /\ \E now \in ClockSamples :
         \/ \E inner \in BaseMetaValues :
              LET r == BaseMetaValue_update_version(inner, now, profile)
              IN  last' = [op |-> "value_update_version", kind |-> "BaseMeta",
                           version |-> inner.version, now |-> now, tag |-> r.tag,
                           ret |-> IF r.tag = "Ok" THEN r.v.version ELSE U64Zero]
         \/ \E l \in ListsMetaValues, v \in Times :
              LET r == ListsMetaValue_update_version(
                           [l EXCEPT !.inner.version = v], now, profile)
              IN  last' = [op |-> "value_update_version", kind |-> "Lists",
                           version |-> v, now |-> now, tag |-> r.tag,
                           ret |-> IF r.tag = "Ok" THEN r.v.inner.version ELSE U64Zero]
    /\ UNCHANGED <<profile, budget, calls, record, lists>>

\* check_modify_count on the held record: it answers and changes nothing
CheckModifyCount ==
    /\ mstate = "live"
    /\ calls < budget
    /\ calls' = calls + 1
    /\ \E delta \in Deltas :
         last' = [op |-> "check_modify_count", arg |-> delta, before |-> meta,
                  tag |-> "Ok", ret |-> check_modify_count(meta, delta)]
    /\ UNCHANGED <<profile, budget, record, lists>>

\* check_set_count on the held record
CheckSetCount ==
    /\ mstate = "live"
    /\ calls < budget
    /\ calls' = calls + 1
    /\ \E c \in UsizeCounts :
         last' = [op |-> "check_set_count", arg |-> c, before |-> meta,
                  tag |-> "Ok", ret |-> check_set_count(meta, c)]
    /\ UNCHANGED <<profile, budget, record, lists>>

\* a caller that holds a count as usize stores it when check_set_count has
\* just accepted it
StoreCheckedCount ==
    /\ last.op = "check_set_count"
    /\ last.ret
    /\ LET c == usize_as_i32(last.arg)
       IN  Apply("set_count_checked", last.arg, set_count(meta, c))
    /\ UNCHANGED returned

\* ListsMetaValue::new
ListsNew ==
    /\ Idle
    /\ \E c \in ListCounts : list' = ListsMetaValue_new(i32_to_le_bytes(c))
    /\ lstate' = "value"
    /\ pushes' = <<>>
    /\ calls' = 0
    /\ last' = [op |-> "lists_new"]
    /\ UNCHANGED <<profile, budget, record>>

\* the outcome of a call on the held ListsMetaValue
ListsApply(op, arg, outcome) ==
    /\ lstate = "value"
    /\ calls < budget
    /\ calls' = calls + 1
    /\ pushes' = Append(pushes, [op |-> op, arg |-> arg])
    /\ last' = [op |-> op, arg |-> arg, before |-> list, tag |-> outcome.tag]
    /\ IF outcome.tag = "Ok"
       THEN lstate' = "value" /\ list' = outcome.v
       ELSE lstate' = "panicked" /\ list' = list
    /\ UNCHANGED <<profile, budget, record>>

ModifyLeftIndex ==
    \E index \in Indexes :
        ListsApply("modify_left_index", index,
                   ListsMetaValue_modify_left_index(list, index, profile))

ModifyRightIndex ==
    \E index \in Indexes :
        ListsApply("modify_right_index", index,
                   ListsMetaValue_modify_right_index(list, index, profile))

\* a read of a list: ParsedListsMetaValue::new returns the record, or panics
LoadLists ==
    /\ Idle
    /\ \E value \in ListBuffers :
         LET r == ParsedListsMetaValue_new(value)
         IN  /\ r.tag # "Err"
             /\ lstate' = IF r.tag = "Ok" THEN "parsed" ELSE "panicked"
             /\ list' = IF r.tag = "Ok" THEN r.v ELSE NoList
             /\ last' = [op |-> "lists_load", value |-> value, tag |-> r.tag]
    /\ pushes' = <<>>
    /\ calls' = 0
    /\ UNCHANGED <<profile, budget, record>>

\* a call on the held ParsedListsMetaValue
ParsedListsApply(op, arg, after) ==
    /\ lstate = "parsed"
    /\ calls < budget
    /\ calls' = calls + 1
    /\ pushes' = Append(pushes, [op |-> op, arg |-> arg])
    /\ last' = [op |-> op, arg |-> arg, before |-> list, tag |-> "Ok"]
    /\ list' = after
    /\ UNCHANGED <<profile, budget, lstate, record>>

ParsedInitialMetaValue ==
    ParsedListsApply("initial_meta_value", U64Zero,
                     ParsedListsMetaValue_initial_meta_value(list))

ParsedModifyLeftIndex ==
    \E index \in Indexes :
        ParsedListsApply("modify_left_index", index,
                         ParsedListsMetaValue_modify_left_index(list, index))

ParsedModifyRightIndex ==
    \E index \in Indexes :
        ParsedListsApply("modify_right_index", index,
                         ParsedListsMetaValue_modify_right_index(list, index))

\* the caller is done with the outcome of the call, or with the record
Drop ==
    /\ last.op # "none"
    /\ mstate' = "none"
    /\ meta' = NoMeta
    /\ returned' = <<>>
    /\ calls' = 0
    /\ life' = NoLife
    /\ checked' = TRUE
    /\ lstate' = "none"
    /\ list' = NoList
    /\ pushes' = <<>>
    /\ last' = [op |-> "none"]
    /\ UNCHANGED <<profile, budget>>

Next ==
    \/ Filter
    \/ FilterStringValue
    \/ ParseRaw
    \/ EncodeParseString
    \/ EncodeParseBaseData
    \/ EncodeParseBaseMeta
    \/ LoadMeta
    \/ SetCount
    \/ ModifyCount
    \/ SetCtime
    \/ SetEtime
    \/ UpdateVersion
    \/ InitialMetaValue
    \/ StripSuffix
    \/ ValueUpdateVersion
    \/ Drop

Spec == Init /\ [][Next]_vars

\* the same program built with the release profile only: what it does with
\* no debug assertion and no overflow check compiled in
InitRelease == Init /\ profile = "release"
SpecRelease == InitRelease /\ [][Next]_vars

\* the counting of a container's elements: a record is read, emptied, and its
\* count checked and changed, over MaxLifeCalls calls
InitLifecycle ==
    /\ profile \in Profiles
    /\ budget = MaxLifeCalls
    /\ NothingHeld
NextLifecycle ==
    \/ LoadMeta
    \/ InitialMetaValue
    \/ CheckModifyCount
    \/ ModifyCount
    \/ Drop
SpecLifecycle == InitLifecycle /\ [][NextLifecycle]_vars

\* a count held as usize is checked and stored into a record that was read
NextSetCount ==
    \/ LoadMeta
    \/ CheckSetCount
    \/ StoreCheckedCount
    \/ Drop
SpecSetCount == Init /\ [][NextSetCount]_vars

\* the list metadata record and its two indices, over MaxPushes calls
InitLists ==
    /\ profile \in Profiles
    /\ budget = MaxPushes
    /\ NothingHeld
NextLists ==
    \/ ListsNew
    \/ ModifyLeftIndex
    \/ ModifyRightIndex
    \/ LoadLists
    \/ ParsedInitialMetaValue
    \/ ParsedModifyLeftIndex
    \/ ParsedModifyRightIndex
    \/ Drop
SpecLists == InitLists /\ [][NextLists]_vars

(***************************************************************************)
(* Properties.                                                             *)
(***************************************************************************)
\* the bytes of a parsed record's buffer a range names
RangeBytes(value, r) == SubSeq(value, r.start + 1, r.end)
\* the little-endian u64 in the n-th byte before the end of the buffer
U64BeforeEnd(value, n) ==
    u64_from_le_bytes(SubSeq(value, Len(value) - n + 1, Len(value) - n + 8))
FilterCall == last.op = "filter"
ParseCall(kind) == last.op = "parse" /\ last.kind = kind
StringTagged(value) == Len(value) > 0 /\ value[1] = DataType_as_u8("String")

\* C1: for a String-tagged value that parses as a Scalar String Record, the
\* filter decides Remove iff the record's etime (the last 8 bytes of the
\* layout; the etime the value was encoded with) is not 0 and is <= the
\* clock sampled at that invocation, and Keep otherwise.
C1_StringDecisionIsStaleness ==
    (/\ FilterCall
     /\ StringTagged(last.value)
     /\ ParsedStringsValue_new(last.value, profile).tag = "Ok")
    => LET etime == U64BeforeEnd(last.value, TIMESTAMP_LENGTH)
           stale == etime # U64Zero /\ U64Le(etime, last.now)
       IN  /\ last.encoded => etime = last.inner.etime
           /\ last.decision = (IF stale THEN "Remove" ELSE "Keep")

\* C1 witness: a record encoded with etime T = 2 is removed by the invocation
\* made at T itself
C1_Witness ==
    /\ FilterCall
    /\ last.encoded
    /\ last.inner.etime = U64Of(2)
    /\ last.now = U64Of(2)
    /\ last.decision = "Remove"

C3_ContainerDecisionIsValidity ==
    (/\ FilterCall
     /\ Len(last.value) > 0
     /\ last.value[1] \in {DataType_as_u8(t) : t \in {"Hash", "Set", "ZSet", "List"}})
    => /\ last.decision \in {"Keep", "Remove"}
       /\ last.value[1] # DataType_as_u8("List") =>
            LET r == ParsedBaseMetaValue_new(last.value, profile)
            IN  last.decision =
                  (IF r.tag = "Ok" /\ is_valid(r.v, last.now) THEN "Keep" ELSE "Remove")

\* C4: for a String-tagged value that fails to parse as a Scalar String
\* Record, as a value shorter than the layout's minimum (type byte and
\* fixed suffix) does, the filter decides Remove and does not panic.
C4_UnparsableStringRemoved ==
    (/\ FilterCall
     /\ StringTagged(last.value)
     /\ \/ ParsedStringsValue_new(last.value, profile).tag # "Ok"
        \/ Len(last.value) < TYPE_LENGTH + STRING_VALUE_SUFFIXLENGTH)
    => last.decision = "Remove"

\* the payload range of a parsed record of either shape
UserValueRange(kind, parsed) ==
    IF kind = "BaseMeta" THEN parsed.base.user_value_range
    ELSE parsed.user_value_range

\* C5: every parse-side constructor ends, for every byte string, with Ok or
\* with an InvalidFormat error, never with a panic (a failed assertion, an
\* out-of-range index), and its length arithmetic does not underflow: the
\* payload range of an Ok result does not end before it starts.
C5_ParseNeverPanics ==
    last.op = "parse" =>
        /\ last.result.tag \in {"Ok", "Err"}
        /\ last.result.tag = "Ok" =>
             LET r == UserValueRange(last.kind, last.result.v)
             IN  r.start <= r.end

\* C6: each value update_version returns on a record is strictly greater
\* than every value an earlier call on that record returned.
C6_VersionsStrictlyIncrease ==
    \A i, j \in 1..Len(returned) : i < j => U64Lt(returned[i], returned[j])

\* C7: the materialized count, version, ctime and etime of a held metadata
\* record equal the values decoded from its buffer at the layout's offsets.
C7_FieldsMatchBuffer ==
    mstate = "live" =>
        /\ meta.count = u32_from_le_bytes_as_i32(
               SubSeq(meta.base.value, TYPE_LENGTH + 1,
                      TYPE_LENGTH + BASE_META_VALUE_COUNT_LENGTH))
        /\ meta.base.version =
               U64BeforeEnd(meta.base.value, BASE_META_VALUE_SUFFIX_LENGTH)
        /\ meta.base.ctime = U64BeforeEnd(meta.base.value, 2 * TIMESTAMP_LENGTH)
        /\ meta.base.etime = U64BeforeEnd(meta.base.value, TIMESTAMP_LENGTH)

\* C8: parsing encode(v) succeeds and yields v's type tag, payload, reserve,
\* ctime and etime, for every StringValue v and every BaseMetaValue v whose
\* payload is the 4-byte count; for the latter also v's count and version.
C8_StringAndMetaRoundTrip ==
    /\ (ParseCall("String") /\ last.encoded) =>
         /\ last.result.tag = "Ok"
         /\ LET pv == last.result.v
            IN  /\ pv.data_type = last.inner.data_type
                /\ RangeBytes(pv.value, pv.user_value_range) = last.inner.user_value
                /\ RangeBytes(pv.value, pv.reserve_range) = last.inner.reserve
                /\ pv.ctime = last.inner.ctime
                /\ pv.etime = last.inner.etime
    /\ (ParseCall("BaseMeta") /\ last.encoded) =>
         /\ last.result.tag = "Ok"
         /\ LET pv == last.result.v.base
            IN  /\ pv.data_type = last.inner.data_type
                /\ RangeBytes(pv.value, pv.user_value_range) = last.inner.user_value
                /\ RangeBytes(pv.value, pv.reserve_range) = last.inner.reserve
                /\ pv.version = last.inner.version
                /\ pv.ctime = last.inner.ctime
                /\ pv.etime = last.inner.etime
                /\ i32_to_le_bytes(last.result.v.count) = last.inner.user_value

\* C8 witness: a metadata value with a negative count, the largest version
\* and an expiration was encoded and parsed back
C8_Witness ==
    /\ ParseCall("BaseMeta")
    /\ last.encoded
    /\ last.result.tag = "Ok"
    /\ last.result.v.count = -1
    /\ last.result.v.base.version = U64Max
    /\ last.result.v.base.etime = U64Of(2)

\* C9: for every BaseDataValue v, whatever its payload bytes, parsing
\* encode(v) succeeds and yields v's payload (range 0..len), reserve and ctime.
C9_BaseDataRoundTrip ==
    (ParseCall("BaseData") /\ last.encoded) =>
        /\ last.result.tag = "Ok"
        /\ LET pv == last.result.v
           IN  /\ pv.user_value_range = Range(0, Len(last.inner.user_value))
               /\ RangeBytes(pv.value, pv.user_value_range) = last.inner.user_value
               /\ RangeBytes(pv.value, pv.reserve_range) = last.inner.reserve
               /\ pv.ctime = last.inner.ctime

\* the minimum length of a layout: its fixed-width fields, the type byte
\* (where the layout has one) and the 4-byte count (of a metadata record)
MinLength(kind) ==
    CASE kind = "String" -> TYPE_LENGTH + STRING_VALUE_SUFFIXLENGTH
      [] kind = "BaseData" -> BASE_DATA_VALUE_SUFFIX_LENGTH
      [] kind = "BaseMeta" -> TYPE_LENGTH + BASE_META_VALUE_COUNT_LENGTH
                                  + BASE_META_VALUE_SUFFIX_LENGTH

\* C10: for each layout, a buffer of exactly the minimum length (String 33,
\* bare data 24, container metadata 45) with a valid type tag parses, and a
\* buffer one byte shorter gives an InvalidFormat error.
C10_MinimumLength ==
    (/\ last.op = "parse"
     /\ Len(last.value) > 0
     /\ last.value[1] \in TagBytes)
    => /\ Len(last.value) = MinLength(last.kind) => last.result.tag = "Ok"
       /\ Len(last.value) = MinLength(last.kind) - 1 => last.result = InvalidFormat

\* a live record right after a call of the lifecycle has returned
AfterPhase(phase) == mstate = "live" /\ life.phase = phase

\* C11: after initial_meta_value() returns, the record has count 0, a
\* version > 0 and is not valid; after a following modify_count(+n), n > 0,
\* count() = n and the record is valid; after a following modify_count(-n),
\* count() = 0 and the record is not valid (valid: not stale and count # 0,
\* at whatever clock is_valid samples).
C11_ContainerLifecycle ==
    /\ last.op = "initial_meta_value" => last.tag = "Ok"
    /\ AfterPhase("initial") =>
         /\ count(meta) = 0
         /\ U64Lt(U64Zero, meta.base.version)
         /\ \A now \in ClockSamples : ~is_valid(meta, now)
    /\ AfterPhase("grown") =>
         /\ count(meta) = life.n
         /\ \A now \in ClockSamples : is_valid(meta, now)
    /\ AfterPhase("emptied") =>
         /\ count(meta) = 0
         /\ \A now \in ClockSamples : ~is_valid(meta, now)

\* 0 <= c + d <= i32::MAX over the integers, with no sum that can overflow
SumIsCount(c, d) ==
    IF c >= 0 THEN d >= -c /\ d <= I32_MAX - c
    ELSE c # I32_MIN /\ d >= -c

\* C12: check_modify_count(delta) on a record of count c returns true iff
\* 0 <= c + delta <= i32::MAX; and a modify_count(delta) that follows a true
\* answer leaves count() = c + delta.
C12_CheckedModifyIsExact ==
    /\ last.op = "check_modify_count" =>
         (last.ret <=> SumIsCount(count(last.before), last.arg))
    /\ (last.op = "modify_count" /\ last.approved) =>
         /\ last.tag = "Ok"
         /\ count(meta) = count(last.before) + last.arg

\* C12 witness: a record of count 3 was asked about -3, said yes, and was
\* then emptied by modify_count(-3)
C12_Witness ==
    /\ last.op = "modify_count"
    /\ last.approved
    /\ last.arg = -3
    /\ count(last.before) = 3
    /\ count(meta) = 0

\* the sum of the arguments of the calls of one operation among the calls made
\* on the held list record, and whether it has gone past 2^64 - 1
RECURSIVE SumOf(_, _)
SumOf(seq, op) ==
    IF seq = <<>> THEN [v |-> U64Zero, over |-> FALSE]
    ELSE LET rest == SumOf(Tail(seq), op)
             sum == U64AddCarry(Head(seq).arg, rest.v)
         IN  IF Head(seq).op = op
             THEN [v |-> sum.v, over |-> rest.over \/ sum.carry = 1]
             ELSE rest
\* a sum below 2^63
Below2to63(sum) == ~sum.over /\ sum.v[1] < Limb \div 2
\* a ListsMetaValue is held, or was until a call on it panicked
ListsValueHeld ==
    lstate = "value" \/ (lstate = "panicked" /\ last.op # "lists_load")

\* C13: on a ListsMetaValue made by new(), after any modify_left_index(a_i)
\* and modify_right_index(b_j) calls whose sums stay below 2^63, left_index is
\* INITIAL_LEFT_INDEX minus the sum of the a_i, right_index is
\* INITIAL_RIGHT_INDEX plus the sum of the b_j and left_index < right_index;
\* each call leaves the other index as it was.
C13_IndicesAreInitialPlusSums ==
    ListsValueHeld =>
        LET a == SumOf(pushes, "modify_left_index")
            b == SumOf(pushes, "modify_right_index")
        IN  /\ (Below2to63(a) /\ Below2to63(b)) =>
                 /\ lstate = "value"
                 /\ ListsMetaValue_left_index(list)
                        = U64SubBorrow(INITIAL_LEFT_INDEX, a.v).v
                 /\ ListsMetaValue_right_index(list)
                        = U64AddCarry(INITIAL_RIGHT_INDEX, b.v).v
                 /\ U64Lt(ListsMetaValue_left_index(list),
                          ListsMetaValue_right_index(list))
            /\ (lstate = "value" /\ last.op = "modify_left_index") =>
                 list.right_index = last.before.right_index
            /\ (lstate = "value" /\ last.op = "modify_right_index") =>
                 list.left_index = last.before.left_index

\* C13 witness: left pushes of 1 then 2 and a right push of 2 have moved the
\* left index down by 3 and the right index up by 2
C13_Witness ==
    /\ lstate = "value"
    /\ pushes = << [op |-> "modify_left_index", arg |-> U64Of(1)],
                   [op |-> "modify_left_index", arg |-> U64Of(2)],
                   [op |-> "modify_right_index", arg |-> U64Of(2)] >>
    /\ list.left_index = <<(Limb \div 2) - 1, Limb - 1, Limb - 1, Limb - 4>>
    /\ list.right_index = <<Limb \div 2, 0, 0, 2>>

\* the calls made so far end with n elements pushed left, then n pushed right
PushedLeftThenRight ==
    /\ Len(pushes) >= 2
    /\ pushes[Len(pushes) - 1].op = "modify_left_index"
    /\ pushes[Len(pushes)].op = "modify_right_index"
    /\ pushes[Len(pushes) - 1].arg = pushes[Len(pushes)].arg
\* a list record that started from its initial state (new() for the value,
\* initial_meta_value() for the parsed record) and then had n elements pushed
\* left and n pushed right
FromInitialPushedLeftThenRight ==
    /\ PushedLeftThenRight
    /\ \/ lstate = "value" /\ Len(pushes) = 2
       \/ /\ lstate = "parsed"
          /\ Len(pushes) = 3
          /\ pushes[1].op = "initial_meta_value"

C15_ListInitialMetaValueResets ==
    (lstate = "parsed" /\ last.op = "initial_meta_value") =>
        /\ ParsedListsMetaValue_count(list) = U64Zero
        /\ ParsedListsMetaValue_left_index(list) = INITIAL_LEFT_INDEX
        /\ ParsedListsMetaValue_right_index(list) = INITIAL_RIGHT_INDEX

\* C16: after strip_suffix() on the record parsed from encode(v), the owned
\* buffer is exactly v's payload: for a ParsedStringsValue the type byte and
\* the reserve, ctime and etime are gone, for a ParsedBaseDataValue the
\* trailing reserve and ctime.
C16_StripSuffixLeavesPayload ==
    (last.op = "strip_suffix" /\ last.encoded) =>
        /\ last.result.tag = "Ok"
        /\ last.result.v.value = last.inner.user_value
        /\ Len(last.before.value) - Len(last.result.v.value) =
               (IF last.kind = "String"
                THEN TYPE_LENGTH + SUFFIX_RESERVE_LENGTH + 2 * TIMESTAMP_LENGTH
                ELSE SUFFIX_RESERVE_LENGTH + TIMESTAMP_LENGTH)

\* C16 witness: the string record of the payload 't', 0xFF was stripped to it
C16_Witness ==
    /\ last.op = "strip_suffix"
    /\ last.encoded
    /\ last.kind = "String"
    /\ last.inner.user_value = <<116, 255>>
    /\ last.result.tag = "Ok"
    /\ last.result.v.value = <<116, 255>>

\* what update_version is to store and return for a stored version v and a
\* clock sample now: now when now > v, and v + 1 otherwise, which no u64 is
\* when v = u64::MAX
VersionAsClaimed(ret, v, now) ==
    IF U64Lt(v, now) THEN ret = now
    ELSE v # U64Max /\ ret = U64WrappingInc(v)

\* C17: update_version() on a record of stored version v returns, and
\* stores, the sampled time now when now > v, and v + 1 otherwise.
C17_UpdateVersionValue ==
    /\ last.op = "value_update_version" =>
         /\ last.tag = "Ok"
         /\ VersionAsClaimed(last.ret, last.version, last.now)
    /\ last.op = "update_version" =>
         /\ last.tag = "Ok"
         /\ VersionAsClaimed(meta.base.version, last.before.base.version, last.arg)
         /\ returned[Len(returned)] = meta.base.version

\* the in-place mutators, and the field each one owns: where its bytes start
\* in a buffer of len bytes (0-based) and how many they are
InPlaceMutators == {"set_ctime", "set_etime", "modify_count", "update_version"}
OwnStart(op, len) ==
    CASE op = "set_ctime" -> len - 2 * TIMESTAMP_LENGTH
      [] op = "set_etime" -> len - TIMESTAMP_LENGTH
      [] op = "modify_count" -> TYPE_LENGTH
      [] op = "update_version" -> len - BASE_META_VALUE_SUFFIX_LENGTH
OwnWidth(op) ==
    CASE op = "set_ctime" -> TIMESTAMP_LENGTH
      [] op = "set_etime" -> TIMESTAMP_LENGTH
      [] op = "modify_count" -> BASE_META_VALUE_COUNT_LENGTH
      [] op = "update_version" -> VERSION_LENGTH

\* C18: set_ctime, set_etime, modify_count and update_version, on a record
\* built from a buffer of at least the layout's minimum length, leave the
\* buffer's length as it was and change only the bytes of their own field:
\* every other byte and every other materialized field is unchanged.
C18_MutatorsChangeOwnFieldOnly ==
    (/\ last.op \in InPlaceMutators
     /\ last.tag = "Ok"
     /\ Len(last.before.base.value) >= MinLength("BaseMeta"))
    => LET old == last.before
           len == Len(old.base.value)
           start == OwnStart(last.op, len)
       IN  /\ Len(meta.base.value) = len
           /\ \A i \in 1..len :
                (i <= start \/ i > start + OwnWidth(last.op))
                    => meta.base.value[i] = old.base.value[i]
           /\ last.op # "modify_count" => meta.count = old.count
           /\ last.op # "update_version" => meta.base.version = old.base.version
           /\ last.op # "set_ctime" => meta.base.ctime = old.base.ctime
           /\ last.op # "set_etime" => meta.base.etime = old.base.etime
           /\ meta.base.data_type = old.base.data_type
           /\ meta.base.user_value_range = old.base.user_value_range
           /\ meta.base.reserve_range = old.base.reserve_range

\* C18 witness: set_etime(u64::MAX) on a record of another etime has put
\* eight 0xFF bytes at the end of the buffer
C18_Witness ==
    /\ last.op = "set_etime"
    /\ last.tag = "Ok"
    /\ last.arg = U64Max
    /\ last.before.base.etime # U64Max
    /\ meta.base.etime = U64Max
    /\ U64BeforeEnd(meta.base.value, TIMESTAMP_LENGTH) = U64Max
    /\ meta.base.ctime = last.before.base.ctime

\* C19: a count c that check_set_count accepts is representable in the i32
\* count field, 0 <= c <= i32::MAX, so that set_count stores it and count()
\* reads c back, non-negative.
C19_AcceptedCountFitsI32 ==
    /\ (last.op = "check_set_count" /\ last.ret) =>
         U64Le(last.arg, U64Of(I32_MAX))
    /\ (mstate = "live" /\ last.op = "set_count_checked") =>
         /\ count(meta) >= 0
         /\ U64Of(count(meta)) = last.arg

\* C20: count() >= 0 on a held record right after any successful parse and
\* after any modify_count calls that were each preceded by a
\* check_modify_count of the same delta returning true; so is_valid() is
\* never true of a record with a negative count.
C20_CountNeverNegative ==
    (mstate = "live" /\ checked) =>
        /\ count(meta) >= 0
        /\ \A now \in ClockSamples : is_valid(meta, now) => count(meta) >= 0

=============================================================================
